---- MODULE Spec2Model ----
(***************************************************************************)
(* A model of the two dataset adapters of DL-Art-School:                   *)
(*   codes/data/audio/grand_conjoined_dataset.py  GrandConjoinedDataset    *)
(*   codes/data/Downsample_dataset.py             DownsampleDataset        *)
(* Spec models GrandConjoinedDataset, SpecDownsample DownsampleDataset.    *)
(***************************************************************************)
EXTENDS Integers, Sequences, FiniteSets

VARIABLES
    only_paired,            \* self.only_paired
    collate,                \* self.collate
    n_paired,               \* len(self.speech_and_text)
    n_speech,               \* len(self.speech)
    text,                   \* self.text, the unpaired text corpus
    max_solo_audio_length,  \* self.max_solo_audio_length
    max_solo_text_length,   \* self.max_solo_text_length
    op,                     \* the method being executed
    pc,                     \* the position inside it
    arg,                    \* the index the method was called with
    cur,                    \* the argument i of the running fetch_text_at frame
    snt,                    \* the local snt of __getitem__
    fetched_text,           \* the locals txt, txt_tok of __getitem__
    upstream,               \* the clip as self.speech returned it
    result,                 \* what the method returned
    reads,                  \* log of the sub-dataset positions read by the call
    pass_done,              \* indices whose __getitem__ returned in this pass
    pass_seen,              \* sub-dataset positions read by those calls
    ds                      \* the DownsampleDataset object and its running call

vars == <<only_paired, collate, n_paired, n_speech, text, max_solo_audio_length,
          max_solo_text_length, op, pc, arg, cur, snt, fetched_text, upstream,
          result, reads, pass_done, pass_seen, ds>>

config == <<only_paired, collate, n_paired, n_speech, text,
            max_solo_audio_length, max_solo_text_length>>

----------------------------------------------------------------------------
(* Bounds of the model. *)

MaxPaired == 2
MaxSpeech == 2
MaxText == 3
MaxSoloAudio == 1
MaxSoloText == 3

\* Upstream clips have up to MaxClip samples, some more than any maximum.
MaxClip == MaxSoloAudio + 1

\* The read log keeps the first ReadCap reads of a call; a returning
\* __getitem__ makes at most MaxText + 2 of them.
ReadCap == MaxText + 3

Min(a, b) == IF a < b THEN a ELSE b
Max(a, b) == IF a > b THEN a ELSE b

None == [kind |-> "none"]

----------------------------------------------------------------------------
(* The text corpus.  A sample is the string under its 'text' key together  *)
(* with what the paired dataset's tokenizer (get_text) does on that string:*)
(* the token tensor it returns, or that it raises.                         *)

TextSamples ==
    { [text |-> <<"a", "b">>, raises |-> FALSE, tokens |-> <<1, 2>>],
      [text |-> <<"a", "*">>, raises |-> FALSE, tokens |-> <<1, 3>>],
      [text |-> <<"e">>,      raises |-> TRUE,  tokens |-> <<>>] }

Corpora == UNION { [1..n -> TextSamples] : n \in 0..MaxText }

----------------------------------------------------------------------------
(* Pure helpers of grand_conjoined_dataset.py. *)

\* Mutant of clamp: the upper limit is not applied.
clamp_no_upper(x, minimum, maximum) == Max(minimum, x)

clamp(x, minimum, maximum) == Max(minimum, Min(x, maximum))

\* '*' in txt
has_star(txt) == \E k \in 1..Len(txt) : txt[k] = "*"

\* The try body of fetch_text_at up to the tokenizer call completes.
try_succeeds(s) == ~has_star(s.text) /\ ~s.raises

\* F.pad(tok, (0, n)): n zeros appended.
pad(tok, n) == tok \o [k \in 1..n |-> 0]

\* Mutant of fit_tokens: short tensors are not padded.
fit_tokens_no_pad(tok) ==
    IF max_solo_text_length - Len(tok) < 0
    THEN SubSeq(tok, 1, max_solo_text_length)
    ELSE tok

\* Truncation or padding of the token tensor to max_solo_text_length.
fit_tokens(tok) ==
    LET padding_required == max_solo_text_length - Len(tok)
    IN  IF padding_required < 0 THEN SubSeq(tok, 1, max_solo_text_length)
        ELSE IF padding_required > 0 THEN pad(tok, padding_required)
        ELSE tok

\* The corpus position fetch_text_at(i) reads.
text_index(i) == i % Len(text)

\* Mutant of retry_arg: the retry skips a position.
retry_arg_skip(i) == (i + 2) % Len(text)

\* The argument of the recursive call in the except branch.
retry_arg(i) == (i + 1) % Len(text)

\* Mutant of snt_index: the index is not wrapped.
snt_index_unwrapped(i) == i

\* The positions fetch_snt_at(i) and __getitem__(i) read.
snt_index(i) == i % n_paired
speech_index(i) == i % n_speech

\* The argument __getitem__(i) hands to fetch_text_at.
text_start(i) == i % Len(text)

\* Mutant of gcd_len: the text corpus is left out of the maximum.
gcd_len_no_text ==
    IF only_paired THEN n_paired ELSE Max(n_speech, n_paired)

\* GrandConjoinedDataset.__len__
gcd_len ==
    IF only_paired THEN n_paired
    ELSE Max(Max(n_speech, n_paired), Len(text))

\* What the paired dataset yields at position k: a tuple when it collates,
\* a dict otherwise.
paired_tuple(k) ==
    [tseq |-> <<"tseq", k>>, wav |-> <<"wav", k>>, path |-> <<"path", k>>,
     text |-> <<"text", k>>, cond |-> <<"cond", k>>]
paired_dict(k) ==
    [real_text |-> <<"text", k>>, padded_text |-> <<"tseq", k>>,
     text_lengths |-> <<"text_lengths", k>>, wav |-> <<"wav", k>>,
     wav_lengths |-> <<"wav_lengths", k>>, filenames |-> <<"path", k>>]

\* The value fetch_snt_at returns for the element at position k.
snt_of(k) ==
    IF collate
    THEN LET f == paired_tuple(k)
         IN  [real_text |-> f.text, padded_text |-> f.tseq,
              text_lengths |-> <<"text_lengths", f.tseq[2]>>,
              wav |-> f.wav, wav_lengths |-> <<"wav_lengths", f.wav[2]>>,
              filenames |-> f.path]
    ELSE paired_dict(k)

\* sp['clip'][:, :max_solo_audio_length] and the clamp of sp['clip_lengths'];
\* a clip is its position in the dataset and its number of samples.
bound_clip(sp) ==
    [clip |-> <<"clip", sp.at, Min(sp.n, max_solo_audio_length)>>,
     clip_lengths |-> <<"clip_lengths", clamp(sp.clip_lengths, 0, max_solo_audio_length)>>,
     path |-> <<"speech_path", sp.at>>]

\* Mutant of paired_only_record: the text_* keys are missing.
paired_only_record_short(s) ==
    [paired_audio |-> s.wav, paired_audio_lengths |-> s.wav_lengths,
     paired_text |-> s.real_text, paired_text_tokens |-> s.padded_text,
     paired_file |-> s.filenames,
     speech_audio |-> s.wav, speech_audio_lengths |-> s.wav_lengths,
     speech_file |-> s.filenames]

\* The record of the paired-only branch.
paired_only_record(s) ==
    [paired_audio |-> s.wav, paired_audio_lengths |-> s.wav_lengths,
     paired_text |-> s.real_text, paired_text_tokens |-> s.padded_text,
     paired_file |-> s.filenames,
     speech_audio |-> s.wav, speech_audio_lengths |-> s.wav_lengths,
     speech_file |-> s.filenames,
     text_text |-> s.real_text, text_tokens |-> s.padded_text]

\* The record of the full branch.
full_record(s, t, sp) ==
    [paired_audio |-> s.wav, paired_audio_lengths |-> s.wav_lengths,
     paired_text |-> s.real_text, paired_text_tokens |-> s.padded_text,
     paired_file |-> s.filenames,
     speech_audio |-> sp.clip, speech_audio_lengths |-> sp.clip_lengths,
     speech_file |-> sp.path,
     text_text |-> t.txt, text_tokens |-> t.tok]

\* The read log, capped.
logged(what, at) ==
    IF Len(reads) < ReadCap THEN Append(reads, <<what, at>>) ELSE reads

----------------------------------------------------------------------------
(* Under Spec no DownsampleDataset exists. *)

NoDs == [pc |-> "absent"]

----------------------------------------------------------------------------
(* GrandConjoinedDataset: construction. *)

Init ==
    /\ only_paired \in BOOLEAN
    /\ collate \in BOOLEAN
    /\ n_paired \in 0..MaxPaired
    \* self.speech and self.text exist only when not only_paired
    /\ n_speech \in (IF only_paired THEN {0} ELSE 0..MaxSpeech)
    /\ text \in (IF only_paired THEN {<<>>} ELSE Corpora)
    /\ max_solo_audio_length \in 0..MaxSoloAudio
    /\ max_solo_text_length \in 1..MaxSoloText
    /\ op = "none"
    /\ pc = "idle"
    /\ arg = 0
    /\ cur = 0
    /\ snt = None
    /\ fetched_text = None
    /\ upstream = None
    /\ result = None
    /\ reads = <<>>
    /\ pass_done = {}
    /\ pass_seen = {}
    /\ ds = NoDs

(* __len__() *)
Call_len ==
    /\ pc = "idle"
    /\ op' = "len"
    /\ pc' = "returned"
    /\ result' = [kind |-> "len", n |-> gcd_len]
    /\ UNCHANGED <<config, arg, cur, snt, fetched_text, upstream, reads, pass_done, pass_seen, ds>>

(* fetch_text_at(i) called directly. *)
Call_fetch_text_at ==
    /\ pc = "idle"
    /\ ~only_paired
    /\ \E i \in 0..MaxText :
        /\ arg' = i
        /\ cur' = i
    /\ op' = "fetch_text_at"
    /\ pc' = "text"
    /\ UNCHANGED <<config, snt, fetched_text, upstream, result, reads, pass_done, pass_seen, ds>>

(* One frame of fetch_text_at: the try body, and on any exception the     *)
(* recursive call of the except branch.                                    *)
fetch_text_at ==
    /\ pc = "text"
    /\ IF Len(text) = 0
       THEN \* i % 0 raises in the try body and again in the except branch
            /\ pc' = "raised"
            /\ UNCHANGED <<cur, fetched_text, result, reads>>
       ELSE LET s == text[text_index(cur) + 1]
            IN  /\ reads' = logged("text", text_index(cur))
                /\ IF try_succeeds(s)
                   THEN LET t == [txt |-> s.text, tok |-> fit_tokens(s.tokens)]
                        IN  /\ fetched_text' = t
                            /\ IF op = "getitem"
                               THEN pc' = "speech" /\ UNCHANGED result
                               ELSE /\ pc' = "returned"
                                    /\ result' = [kind |-> "text", txt |-> t.txt, tok |-> t.tok]
                            /\ UNCHANGED cur
                   ELSE /\ cur' = retry_arg(cur)
                        /\ UNCHANGED <<pc, fetched_text, result>>
    /\ UNCHANGED <<config, op, arg, snt, upstream, pass_done, pass_seen, ds>>

\* The indices the caller may pass to __getitem__: any index below __len__()
\* outside a pass, the next index of the pass inside one.
callable ==
    IF pass_done = {} THEN 0..(gcd_len - 1)
    ELSE {Cardinality(pass_done)} \cap (0..(gcd_len - 1))

(* __getitem__(i): the call of fetch_snt_at, then the paired-only return  *)
(* or the evaluation of the argument of fetch_text_at.                     *)
getitem_snt ==
    /\ pc = "idle"
    /\ op' = "getitem"
    /\ \E i \in callable, ok \in BOOLEAN :
        /\ arg' = i
        /\ IF n_paired = 0
           THEN \* i % len(self.speech_and_text) raises
                /\ pc' = "raised"
                /\ UNCHANGED <<snt, cur, result, reads>>
           ELSE /\ reads' = logged("paired", snt_index(i))
                /\ IF ~ok
                   THEN \* the paired dataset raises
                        /\ pc' = "raised"
                        /\ UNCHANGED <<snt, cur, result>>
                   ELSE /\ snt' = snt_of(snt_index(i))
                        /\ IF only_paired
                           THEN /\ pc' = "returned"
                                /\ result' = [kind |-> "item",
                                              rec |-> paired_only_record(snt_of(snt_index(i)))]
                                /\ UNCHANGED cur
                           ELSE IF Len(text) = 0
                           THEN \* i % len(self.text) raises
                                /\ pc' = "raised"
                                /\ UNCHANGED <<cur, result>>
                           ELSE /\ pc' = "text"
                                /\ cur' = text_start(i)
                                /\ UNCHANGED result
    /\ UNCHANGED <<config, fetched_text, upstream, pass_done, pass_seen, ds>>

\* Mutant of speech_failure: the read is tried again.
speech_failure_retry == pc' = "speech" /\ UNCHANGED <<upstream, result>>

\* self.speech[...] raises inside __getitem__, which has no handler.
speech_failure == pc' = "raised" /\ UNCHANGED <<upstream, result>>

(* __getitem__(i) after fetch_text_at returned: the unpaired speech clip  *)
(* and the full record.                                                    *)
getitem_speech ==
    /\ pc = "speech"
    /\ IF n_speech = 0
       THEN \* i % len(self.speech) raises
            /\ pc' = "raised"
            /\ UNCHANGED <<upstream, result, reads>>
       ELSE /\ reads' = logged("speech", speech_index(arg))
            /\ \/ speech_failure
               \/ \E n \in 0..MaxClip, l \in (-1)..MaxClip :
                    LET sp == [at |-> speech_index(arg), n |-> n, clip_lengths |-> l]
                    IN  /\ upstream' = sp
                        /\ result' = [kind |-> "item",
                                      rec |-> full_record(snt, fetched_text, bound_clip(sp))]
                        /\ pc' = "returned"
    /\ UNCHANGED <<config, op, arg, cur, snt, fetched_text, pass_done, pass_seen, ds>>

(* The caller takes the result or the exception; the object is unchanged. *)
(* A pass over the dataset calls __getitem__ for the indices 0, 1, ... in  *)
(* turn; an exception ends the pass.                                       *)
Finish ==
    /\ pc \in {"returned", "raised"}
    /\ IF op # "getitem"
       THEN UNCHANGED <<pass_done, pass_seen>>
       ELSE IF pc = "raised"
       THEN pass_done' = {} /\ pass_seen' = {}
       ELSE IF arg # Cardinality(pass_done)
       THEN UNCHANGED <<pass_done, pass_seen>>
       ELSE /\ pass_done' = pass_done \cup {arg}
            /\ pass_seen' = pass_seen \cup {reads[k] : k \in 1..Len(reads)}
    /\ op' = "none"
    /\ pc' = "idle"
    /\ arg' = 0
    /\ cur' = 0
    /\ snt' = None
    /\ fetched_text' = None
    /\ upstream' = None
    /\ result' = None
    /\ reads' = <<>>
    /\ UNCHANGED <<config, ds>>

(* A completed pass is followed by a new one. *)
New_pass ==
    /\ pc = "idle"
    /\ gcd_len > 0
    /\ pass_done = 0..(gcd_len - 1)
    /\ pass_done' = {}
    /\ pass_seen' = {}
    /\ UNCHANGED <<config, op, pc, arg, cur, snt, fetched_text, upstream, result, reads, ds>>

Next ==
    \/ New_pass
    \/ Call_len
    \/ Call_fetch_text_at
    \/ fetch_text_at
    \/ getitem_snt
    \/ getitem_speech
    \/ Finish

Spec == Init /\ [][Next]_vars

----------------------------------------------------------------------------
(* DownsampleDataset.  ds holds the object (data_type, the lengths of the  *)
(* path lists, the options) and its running __getitem__: the index, the    *)
(* list positions read, and the shapes <<H, W>> of the images.  With       *)
(* data_type 'lmdb' the size lists are as long as the path lists.          *)

MaxImages == 2
MaxScale == 2
MaxTarget == 2
MaxExtra == 2

\* GT_size = self.opt['target_size'] * scale
GT_size == ds.target_size * ds.scale

\* LQ_size = GT_size // scale
LQ_size == GT_size \div ds.scale

\* The list positions __getitem__(index) reads.
paths_GT_index(index) == index % ds.n_GT
sizes_GT_index(index) == index
paths_LQ_index(index) == index % ds.n_LQ
sizes_LQ_index(index) == index

\* DownsampleDataset.__len__
ds_len == Max(ds.n_GT, ds.n_LQ)

\* The extent of img[start:start + size] along an axis of n elements.
slice_len(n, start, size) == Max(0, Min(n, start + size) - Min(n, start))

\* The upper end of random.randint(0, max(0, H - LQ_size)).
rnd_max(n) == Max(0, n - LQ_size)

\* The lists read up to the first read out of range, which raises IndexError.
reads_until_error(rs) ==
    IF \E k \in 1..Len(rs) : rs[k].at >= rs[k].len
    THEN SubSeq(rs, 1, CHOOSE k \in 1..Len(rs) :
                        /\ rs[k].at >= rs[k].len
                        /\ \A j \in 1..(k - 1) : rs[j].at < rs[j].len)
    ELSE rs

\* The list reads of __getitem__(index), in program order.
list_reads(index) ==
    LET gt == << [list |-> "paths_GT", at |-> paths_GT_index(index), len |-> ds.n_GT] >>
        gs == << [list |-> "sizes_GT", at |-> sizes_GT_index(index), len |-> ds.n_GT] >>
        lq == << [list |-> "paths_LQ", at |-> paths_LQ_index(index), len |-> ds.n_LQ] >>
        ls == << [list |-> "sizes_LQ", at |-> sizes_LQ_index(index), len |-> ds.n_LQ] >>
    IN  IF ds.data_type = "lmdb" THEN gt \o gs \o lq \o ls ELSE gt \o lq

InitDownsample ==
    /\ only_paired = TRUE
    /\ collate = FALSE
    /\ n_paired = 0
    /\ n_speech = 0
    /\ text = <<>>
    /\ max_solo_audio_length = 0
    /\ max_solo_text_length = 0
    /\ op = "none"
    /\ pc = "absent"
    /\ arg = 0
    /\ cur = 0
    /\ snt = None
    /\ fetched_text = None
    /\ upstream = None
    /\ result = None
    /\ reads = <<>>
    /\ pass_done = {}
    /\ pass_seen = {}
    /\ \E dt \in {"img", "lmdb"}, ok \in BOOLEAN,
          g \in 1..MaxImages, l \in 1..MaxImages,
          sc \in 1..MaxScale, ts \in 1..MaxTarget,
          ph \in {"train", "val"}, crop \in BOOLEAN :
        \* the asserts of __init__
        /\ ok \/ g = l
        /\ ds = [pc |-> "idle", data_type |-> dt, data_sz_mismatch_ok |-> ok,
                 n_GT |-> g, n_LQ |-> l, scale |-> sc, target_size |-> ts,
                 phase |-> ph, doCrop |-> crop,
                 index |-> 0, reads |-> <<>>,
                 loaded_GT |-> None, loaded_LQ |-> None, rnd |-> None,
                 img_GT |-> None, img_LQ |-> None, PIX |-> None]

gcd_vars == <<only_paired, collate, n_paired, n_speech, text, max_solo_audio_length,
              max_solo_text_length, op, pc, arg, cur, snt, fetched_text, upstream,
              result, reads, pass_done, pass_seen>>

(* DownsampleDataset.__getitem__(index).  The images read are inputs: their *)
(* shapes are drawn here, and so are the random crop offsets.  The geometry *)
(* of the validation phase is not tracked.                                  *)
Downsample_getitem ==
    /\ ds.pc = "idle"
    /\ \E index \in 0..(ds_len - 1) :
        LET all == list_reads(index)
            done == reads_until_error(all)
        IN  IF done # all
            THEN \* IndexError
                 ds' = [ds EXCEPT !.pc = "raised", !.index = index, !.reads = done]
            ELSE IF ds.phase # "train"
            THEN ds' = [ds EXCEPT !.pc = "returned", !.index = index, !.reads = done]
            ELSE \E gH \in (GT_size - 1)..(GT_size + MaxExtra),
                    gW \in (GT_size - 1)..(GT_size + MaxExtra),
                    H \in 1..(LQ_size + MaxExtra), W \in 1..(LQ_size + MaxExtra) :
                 IF ~(gH >= GT_size /\ gW >= GT_size)
                 THEN \* the assert on the GT shape
                      ds' = [ds EXCEPT !.pc = "raised", !.index = index, !.reads = done]
                 ELSE IF ds.doCrop
                 THEN \E rnd_h \in 0..rnd_max(H), rnd_w \in 0..rnd_max(W) :
                        LET rnd_h_GT == rnd_h * ds.scale
                            rnd_w_GT == rnd_w * ds.scale
                            lq == << slice_len(H, rnd_h, LQ_size),
                                     slice_len(W, rnd_w, LQ_size) >>
                            gt == << slice_len(gH, rnd_h_GT, GT_size),
                                     slice_len(gW, rnd_w_GT, GT_size) >>
                        IN  ds' = [ds EXCEPT !.pc = "returned", !.index = index,
                                             !.reads = done,
                                             !.loaded_GT = << gH, gW >>,
                                             !.loaded_LQ = << H, W >>,
                                             !.rnd = << rnd_h, rnd_w >>,
                                             !.img_LQ = lq, !.img_GT = gt,
                                             !.PIX = << gt[1] \div ds.scale,
                                                        gt[2] \div ds.scale >>]
                 ELSE \* cv2.resize of both images
                      ds' = [ds EXCEPT !.pc = "returned", !.index = index,
                                       !.reads = done,
                                       !.loaded_GT = << gH, gW >>,
                                       !.loaded_LQ = << H, W >>,
                                       !.img_LQ = << LQ_size, LQ_size >>,
                                       !.img_GT = << GT_size, GT_size >>,
                                       !.PIX = << GT_size \div ds.scale,
                                                  GT_size \div ds.scale >>]
    /\ UNCHANGED gcd_vars

(* The caller takes the sample or the exception. *)
Downsample_finish ==
    /\ ds.pc \in {"returned", "raised"}
    /\ ds' = [ds EXCEPT !.pc = "idle", !.index = 0, !.reads = <<>>,
                        !.loaded_GT = None, !.loaded_LQ = None, !.rnd = None,
                        !.img_GT = None, !.img_LQ = None, !.PIX = None]
    /\ UNCHANGED gcd_vars

NextDownsample ==
    \/ Downsample_getitem
    \/ Downsample_finish

SpecDownsample == InitDownsample /\ [][NextDownsample]_vars

----------------------------------------------------------------------------
(* Properties of GrandConjoinedDataset, checked under Spec. *)

\* The corpus positions the running call has read, in order.
TextReads ==
    LET tr == SelectSeq(reads, LAMBDA r : r[1] = "text")
    IN  [k \in 1..Len(tr) |-> tr[k][2]]
PairedReads == { k \in 1..Len(reads) : reads[k][1] = "paired" }
SpeechReads == { k \in 1..Len(reads) : reads[k][1] = "speech" }

\* A sample the fetch accepts: no '*' in its text and the tokenizer does not raise.
Acceptable(k) ==
    /\ \A c \in 1..Len(text[k + 1].text) : text[k + 1].text[c] # "*"
    /\ ~text[k + 1].raises
HasAcceptable == \E k \in 0..(Len(text) - 1) : Acceptable(k)

\* The number of unacceptable positions met scanning start, start+1, ... cyclically.
Skipped(start) ==
    CHOOSE d \in 0..(Len(text) - 1) :
        /\ Acceptable((start + d) % Len(text))
        /\ \A e \in 0..(d - 1) : ~Acceptable((start + e) % Len(text))

C2_RetryBounded ==
    op \in {"fetch_text_at", "getitem"} =>
        /\ Len(TextReads) <= Len(text)
        /\ \A j, k \in 1..Len(TextReads) : j # k => TextReads[j] # TextReads[k]

\* C3: __len__ is the length of the paired dataset in paired-only mode and
\* otherwise the greatest of the three lengths.
C3_Len ==
    (op = "len" /\ pc = "returned") =>
        IF only_paired
        THEN result.n = n_paired
        ELSE /\ result.n \in {n_speech, n_paired, Len(text)}
             /\ result.n >= n_speech
             /\ result.n >= n_paired
             /\ result.n >= Len(text)

\* __len__ in full mode where the paired dataset is the longest and the text
\* corpus is longer than the speech dataset.
C3_Witness ==
    /\ op = "len" /\ pc = "returned" /\ ~only_paired
    /\ n_paired = 2 /\ n_speech = 0 /\ Len(text) = 1
    /\ result.n = 2

\* C4: __getitem__(i) with 0 <= i < __len__() reads the paired dataset at
\* i mod len(paired), the speech dataset at i mod len(speech) and starts the
\* text fetch at i mod len(text), every read in range; in a completed pass
\* over all indices every paired and every unpaired speech sample was read.
C4_WrappedReads ==
    /\ op = "getitem" =>
        /\ arg \in 0..(gcd_len - 1)
        /\ \A k \in PairedReads :
               reads[k][2] = arg % n_paired /\ reads[k][2] \in 0..(n_paired - 1)
        /\ \A k \in SpeechReads :
               reads[k][2] = arg % n_speech /\ reads[k][2] \in 0..(n_speech - 1)
        /\ \A k \in 1..Len(TextReads) : TextReads[k] \in 0..(Len(text) - 1)
        /\ Len(TextReads) > 0 => TextReads[1] = arg % Len(text)
        /\ (pc = "returned" /\ ~only_paired) =>
               PairedReads # {} /\ SpeechReads # {} /\ Len(TextReads) > 0
    /\ (gcd_len > 0 /\ pass_done = 0..(gcd_len - 1)) =>
        /\ \A k \in 0..(n_paired - 1) : <<"paired", k>> \in pass_seen
        /\ ~only_paired => \A k \in 0..(n_speech - 1) : <<"speech", k>> \in pass_seen

\* A completed pass in full mode over three datasets of three different lengths.
C4_Witness ==
    /\ ~only_paired /\ pc = "idle"
    /\ n_paired = 1 /\ n_speech = 2 /\ Len(text) = 3
    /\ pass_done = {0, 1, 2}
    /\ <<"speech", 1>> \in pass_seen

TenKeys ==
    {"paired_audio", "paired_audio_lengths", "paired_text", "paired_text_tokens",
     "paired_file", "speech_audio", "speech_audio_lengths", "speech_file",
     "text_text", "text_tokens"}

\* C5: the record __getitem__ returns has the same ten keys in both modes; in
\* paired-only mode the speech_* and text_* fields are the paired sample's and
\* neither the speech dataset nor the text corpus is read.
C5_Schema ==
    (op = "getitem" /\ pc = "returned") =>
        /\ result.kind = "item"
        /\ DOMAIN result.rec = TenKeys
        /\ result.rec.paired_audio = snt.wav
        /\ result.rec.paired_audio_lengths = snt.wav_lengths
        /\ result.rec.paired_text = snt.real_text
        /\ result.rec.paired_text_tokens = snt.padded_text
        /\ result.rec.paired_file = snt.filenames
        /\ only_paired =>
            /\ result.rec.speech_audio = snt.wav
            /\ result.rec.speech_audio_lengths = snt.wav_lengths
            /\ result.rec.speech_file = snt.filenames
            /\ result.rec.text_text = snt.real_text
            /\ result.rec.text_tokens = snt.padded_text
            /\ snt.wav = <<"wav", arg % n_paired>>
            /\ SpeechReads = {} /\ Len(TextReads) = 0
            /\ Len(reads) = 1

\* A record returned in paired-only mode for the second paired sample.
C5_Witness ==
    /\ op = "getitem" /\ pc = "returned" /\ only_paired
    /\ arg = 1 /\ result.rec.text_text = <<"text", 1>>

\* C6: in full mode the returned clip has at most max_solo_audio_length samples
\* and speech_audio_lengths lies in [0, max_solo_audio_length]; a reported
\* length within the upstream clip stays within the returned clip.
C6_SoloAudioBound ==
    (op = "getitem" /\ pc = "returned" /\ ~only_paired) =>
        LET samples == result.rec.speech_audio[3]
            lengths == result.rec.speech_audio_lengths[2]
        IN  /\ samples <= max_solo_audio_length
            /\ samples <= upstream.n
            /\ lengths >= 0 /\ lengths <= max_solo_audio_length
            /\ upstream.clip_lengths <= upstream.n => lengths <= samples

\* A clip longer than the maximum, with a consistent reported length above it.
C6_Witness ==
    /\ op = "getitem" /\ pc = "returned" /\ ~only_paired
    /\ upstream.n > max_solo_audio_length
    /\ upstream.clip_lengths > max_solo_audio_length
    /\ upstream.clip_lengths <= upstream.n
    /\ result.rec.speech_audio[3] = max_solo_audio_length

\* C7: the tokens fetch_text_at returns have exactly max_solo_text_length
\* entries: the first max_solo_text_length tokens of a longer tokenization, all
\* tokens of a shorter one followed by zeros, an equally long one unchanged.
C7_TokenLength ==
    fetched_text # None =>
        LET tok == fetched_text.tok
            orig == text[TextReads[Len(TextReads)] + 1].tokens
        IN  /\ Len(tok) = max_solo_text_length
            /\ \A k \in 1..Len(tok) :
                   tok[k] = IF k <= Len(orig) THEN orig[k] ELSE 0
            /\ Len(orig) = max_solo_text_length => tok = orig

\* A returned fetch that padded a two-token sample to three entries.
C7_Witness ==
    /\ op = "fetch_text_at" /\ pc = "returned"
    /\ max_solo_text_length = 3
    /\ result.tok = <<1, 2, 0>>

\* C8: a failure of the paired fetch or of the unpaired speech fetch raises at
\* once: neither dataset is read a second time and nothing is returned; only
\* the text fetch is retried.
C8_NoRetryOutsideText ==
    op = "getitem" =>
        /\ Cardinality(PairedReads) <= 1
        /\ Cardinality(SpeechReads) <= 1
        /\ pc = "raised" => result = None
        /\ (pc = "raised" /\ Len(reads) > 0 /\ reads[Len(reads)][1] = "paired") =>
               Len(reads) = 1
        /\ (pc = "raised" /\ Len(reads) > 0 /\ reads[Len(reads)][1] = "speech") =>
               \A k \in 1..(Len(reads) - 1) : reads[k][1] # "speech"
        /\ pc \in {"text", "speech"} => result = None

\* The speech dataset fails after a text fetch that was retried twice.
C8_Witness ==
    /\ op = "getitem" /\ pc = "raised"
    /\ Len(TextReads) = 3
    /\ reads[Len(reads)][1] = "speech"
    /\ result = None

----------------------------------------------------------------------------
(* Properties of DownsampleDataset, checked under SpecDownsample. *)

\* C9: in the training phase with cropping, for every GT image of at least
\* GT_size x GT_size and every LQ image, the cropped GT image is GT_size x
\* GT_size and the cropped LQ image LQ_size x LQ_size.
C9_CropSizes ==
    (ds.pc = "returned" /\ ds.phase = "train" /\ ds.doCrop) =>
        /\ ds.img_GT = << GT_size, GT_size >>
        /\ ds.img_LQ = << LQ_size, LQ_size >>

\* C10: __getitem__(index) with 0 <= index < __len__() reads the path lists and
\* the size lists only in range, each at index modulo the list's length.
C10_ReadsInRange ==
    ds.pc \in {"returned", "raised"} =>
        \A k \in 1..Len(ds.reads) :
            /\ ds.reads[k].at < ds.reads[k].len
            /\ ds.reads[k].at = ds.index % ds.reads[k].len

====
